---- MODULE Spec2Model ----
(***************************************************************************)
(* State-machine model of src/game-client.js: the coin-collector game      *)
(* server (class GameServer, lines 242-438) with its simulated network     *)
(* latency, as driven by the clients' wire messages, and the snapshot      *)
(* buffer and interpolation of the terminal client (class GameClient,      *)
(* lines 9-239).                                                           *)
(*                                                                         *)
(* Time is the integer millisecond clock Date.now().  Positions are the    *)
(* JavaScript doubles multiplied by Scale and kept as integers.  A pending *)
(* setTimeout is an entry of the queue `timers`; Node keeps the timers of  *)
(* one duration in one list in creation order and runs a timer no earlier  *)
(* than its due time, so the queue is served from its head.                *)
(***************************************************************************)
EXTENDS Integers, Sequences, FiniteSets, TLC

(* ---- bounds of the model ---- *)
MaxPlayers == 2
MaxTimers == 3
MaxMessages == 2
MaxTicks == 2
MaxPeriods == 1
SpawnRounds == 5
Scale == 10
MaxBuffer == 3

(* ---- program constants ---- *)
TICK_RATE == 60
COIN_SPAWN_INTERVAL == 3000
MAP_SIZE == 800
PLAYER_SIZE == 30
COIN_SIZE == 20
PLAYER_SPEED == 3
NETWORK_LATENCY == 180
INTERPOLATION_DELAY == 100
PRUNE_WINDOW == 1000
MAX_COINS == 5

\* setInterval(..., 1000 / TICK_RATE): Node truncates the delay to whole ms
TickInterval == 1000 \div TICK_RATE

VARIABLES
  now,           \* Date.now()
  players,       \* this.players: id -> player record (Map; insertion order = id order)
  coins,         \* this.coins: sequence of [id, x, y]
  nextPlayerId,  \* this.nextPlayerId
  gameStarted,   \* this.gameStarted
  ws,            \* readyState of each accepted connection: id -> "OPEN" | "CLOSED"
  timers,        \* pending setTimeout callbacks, in creation order
  ticked,        \* the tick interval has already run at the instant `now`
  spawnDue,      \* earliest time of the next run of the coin-spawn interval
  ticks,         \* number of ticks run since the game started (bounded by MaxTicks)
  crashed,       \* an exception escaped a timer callback: the process is gone
  wire,          \* the most recent ws.send of the server: connection and payload
  msgs,          \* number of messages the clients have sent (bounded by MaxMessages)
  collected,     \* history: ids of the coins removed by a collision so far
  everTwo,       \* history: the roster has held 2 players at some moment
  myPlayerId,    \* client: this.myPlayerId (0 is null)
  serverStates,  \* client: this.serverStates, the snapshot buffer
  rendered       \* client: what the last call of interpolateState returned

\* the variables of the client process
cvars == <<myPlayerId, serverStates, rendered>>

vars == <<now, players, coins, nextPlayerId, gameStarted, ws, timers,
          ticked, spawnDue, ticks, crashed, wire, msgs, collected, everTwo,
          myPlayerId, serverStates, rendered>>

(* ---- JavaScript values of the `inputs` field ---- *)
\* a field value is one of the strings "true", "false", "undefined", "str"
Truthy(v) == v \in {"true", "str"}

Intent(u, d, l, r) == [kind |-> "object", up |-> u, down |-> d, left |-> l, right |-> r]

NoKeys == Intent("false", "false", "false", "false")

\* inputs absent from the message, JSON null, or a JSON number
NonObject(k) == [kind |-> k, up |-> "undefined", down |-> "undefined",
                 left |-> "undefined", right |-> "undefined"]

\* reading a property of undefined or null throws a TypeError
Throws(inputs) == inputs.kind \in {"undefined", "null"}

IsBoolRecord(inputs) ==
  /\ inputs.kind = "object"
  /\ \A v \in {inputs.up, inputs.down, inputs.left, inputs.right} : v \in {"true", "false"}

(* ---- the wire messages a client can send ---- *)
InputMsg(i) == [parse |-> "ok", type |-> "input", inputs |-> i]

ClientMessages ==
  { InputMsg(Intent("false", "true", "false", "true")),       \* down + right
    InputMsg(Intent("str", "false", "false", "false")),       \* up: "yes"
    InputMsg(NonObject("undefined")),                         \* {"type":"input"}
    [parse |-> "ok", type |-> "chat", inputs |-> Intent("true", "true", "true", "true")],
    [parse |-> "error", type |-> "undefined", inputs |-> NonObject("undefined")],
    [parse |-> "null", type |-> "undefined", inputs |-> NonObject("undefined")] }

(* ---- random draws ---- *)
MaxPlayerCoord == (MAP_SIZE - PLAYER_SIZE) * Scale
MaxCoinCoord == (MAP_SIZE - COIN_SIZE) * Scale

\* Math.random() * (MAP_SIZE - PLAYER_SIZE) lies in [0, 770)
PlayerSpawns == { <<0, 0>>, <<MaxPlayerCoord - 1, MaxPlayerCoord - 1>> }
\* Math.random() * (MAP_SIZE - COIN_SIZE) lies in [0, 780)
CoinSpawns == { <<0, 0>>, <<MaxCoinCoord - 1, MaxCoinCoord - 1>> }

Ids == 1 .. MaxPlayers

Roster == DOMAIN players

Min(a, b) == IF a < b THEN a ELSE b
Max(a, b) == IF a > b THEN a ELSE b

NoSend == [conn |-> 0, msg |-> <<>>]

\* interpolateState has not been called yet
NoRender == [call |-> "none"]

Init ==
  /\ now = 0
  /\ players = <<>>
  /\ coins = <<>>
  /\ nextPlayerId = 1
  /\ gameStarted = FALSE
  /\ ws = <<>>
  /\ timers = <<>>
  /\ ticked = TRUE
  /\ spawnDue = COIN_SPAWN_INTERVAL
  /\ ticks = 0
  /\ crashed = FALSE
  /\ wire = NoSend
  /\ msgs = 0
  /\ collected = {}
  /\ everTwo = FALSE
  /\ myPlayerId = 0
  /\ serverStates = <<>>
  /\ rendered = NoRender

(* ---- helpers of the server ---- *)
RECURSIVE InOrder(_)
\* iteration order of the Map: ids are inserted in increasing order
InOrder(S) ==
  IF S = {} THEN <<>>
  ELSE LET m == CHOOSE i \in S : \A j \in S : i <= j
       IN <<m>> \o InOrder(S \ {m})

\* variant: the player is still in the roster when the close is broadcast
WithoutNone(f, k) == f

Without(f, k) == [i \in (DOMAIN f) \ {k} |-> f[i]]

serializePlayer(p) == [id |-> p.id, x |-> p.x, y |-> p.y, score |-> p.score]

\* this.coins.push({id: Date.now(), x: random, y: random})
spawnCoin(cs, pos) == Append(cs, [id |-> now, x |-> pos[1], y |-> pos[2]])

\* variant: the callback is scheduled without delay
sendNoLatency(q, c, data, built, gone) ==
  Append(q, [kind |-> "send", conn |-> c, at |-> now, due |-> now,
             data |-> data, built |-> built, gone |-> gone])

\* the setTimeout of sendWithLatency: `data` is captured by the closure and is
\* stringified only when the timer runs.  `at` is the time of the call; `built`
\* and `gone` record the coin list and the collected ids at the time of the
\* call (history, not read by the program)
sendWithLatency(q, c, data, built, gone) ==
  Append(q, [kind |-> "send", conn |-> c, at |-> now, due |-> now + NETWORK_LATENCY,
             data |-> data, built |-> built, gone |-> gone])

\* the setTimeout of ws.on('message')
receiveWithLatency(q, c, m) ==
  Append(q, [kind |-> "recv", conn |-> c, at |-> now, due |-> now + NETWORK_LATENCY,
             data |-> m, built |-> <<>>, gone |-> {}])

\* the state object of broadcastGameState: players are copied by
\* serializePlayer, coins is the array this.coins itself (a reference)
StateMsg(ps) ==
  [type |-> "state", timestamp |-> now,
   players |-> [k \in 1 .. Cardinality(DOMAIN ps) |-> serializePlayer(ps[InOrder(DOMAIN ps)[k]])],
   coins |-> "this.coins"]

InitMsg(p) == [type |-> "init", playerId |-> p.id, player |-> serializePlayer(p)]

RECURSIVE SendAll(_, _, _, _, _)
\* for (const [id, player] of this.players) player.sendWithLatency(state)
SendAll(q, ids, data, built, gone) ==
  IF ids = <<>> THEN q
  ELSE SendAll(sendWithLatency(q, Head(ids), data, built, gone), Tail(ids), data, built, gone)

\* broadcastGameState over the roster ps with the coin array cs
broadcastGameState(q, ps, cs, gone) ==
  SendAll(q, InOrder(DOMAIN ps), StateMsg(ps), cs, gone)

\* JSON.stringify(data) at the time the timer runs
Stringify(data, cs) ==
  IF data.type = "state"
  THEN [type |-> "state", timestamp |-> data.timestamp, players |-> data.players, coins |-> cs]
  ELSE [type |-> "init", timestamp |-> 0, players |-> <<data.player>>, coins |-> <<>>]

(* ---- update ---- *)
Sgn(v) == IF v > 0 THEN 1 ELSE IF v < 0 THEN -1 ELSE 0
Abs(v) == IF v < 0 THEN -v ELSE v

\* v / Math.sqrt(2), rounded towards zero at the model's resolution
DivSqrt2(v) == Sgn(v) * ((Abs(v) * 10000) \div 14142)

\* variant: the upper bound of the clamp is forgotten
ClampLowOnly(v) == Max(0, v)

Clamp(v) == Max(0, Min(MaxPlayerCoord, v))

Dx(inputs) ==
  (IF Truthy(inputs.right) THEN PLAYER_SPEED * Scale ELSE 0)
  - (IF Truthy(inputs.left) THEN PLAYER_SPEED * Scale ELSE 0)

Dy(inputs) ==
  (IF Truthy(inputs.down) THEN PLAYER_SPEED * Scale ELSE 0)
  - (IF Truthy(inputs.up) THEN PLAYER_SPEED * Scale ELSE 0)

Move(p) ==
  LET dx == Dx(p.inputs)
      dy == Dy(p.inputs)
      diag == dx # 0 /\ dy # 0
      ndx == IF diag THEN DivSqrt2(dx) ELSE dx
      ndy == IF diag THEN DivSqrt2(dy) ELSE dy
  IN [p EXCEPT !.x = Clamp(p.x + ndx), !.y = Clamp(p.y + ndy)]

\* AABB collision detection
Overlaps(p, coin) ==
  /\ p.x < coin.x + COIN_SIZE * Scale
  /\ p.x + PLAYER_SIZE * Scale > coin.x
  /\ p.y < coin.y + COIN_SIZE * Scale
  /\ p.y + PLAYER_SIZE * Scale > coin.y

RemoveAt(s, i) == SubSeq(s, 1, i - 1) \o SubSeq(s, i + 1, Len(s))

RECURSIVE checkKeepCoin(_, _, _, _)
\* variant: the score is incremented but the coin is not spliced out
checkKeepCoin(i, p, cs, got) ==
  IF i = 0 THEN [player |-> p, coins |-> cs, got |-> got]
  ELSE IF Overlaps(p, cs[i])
       THEN checkKeepCoin(i - 1, [p EXCEPT !.score = p.score + 1], cs, got \cup {cs[i].id})
       ELSE checkKeepCoin(i - 1, p, cs, got)

RECURSIVE checkCoinCollisions(_, _, _, _)
\* for (i = coins.length - 1; i >= 0; i--): score++ and splice on overlap
checkCoinCollisions(i, p, cs, got) ==
  IF i = 0 THEN [player |-> p, coins |-> cs, got |-> got]
  ELSE IF Overlaps(p, cs[i])
       THEN checkCoinCollisions(i - 1, [p EXCEPT !.score = p.score + 1],
                                RemoveAt(cs, i), got \cup {cs[i].id})
       ELSE checkCoinCollisions(i - 1, p, cs, got)

RECURSIVE update(_, _, _, _)
\* the loop of update() over the roster; reading inputs.up of a player whose
\* inputs are undefined or null throws and leaves the loop
update(ids, ps, cs, got) ==
  IF ids = <<>> THEN [players |-> ps, coins |-> cs, got |-> got, threw |-> FALSE]
  ELSE LET p == ps[Head(ids)]
       IN IF Throws(p.inputs)
          THEN [players |-> ps, coins |-> cs, got |-> got, threw |-> TRUE]
          ELSE LET r == checkCoinCollisions(Len(cs), Move(p), cs, got)
               IN update(Tail(ids), [ps EXCEPT ![Head(ids)] = r.player], r.coins, r.got)

\* variant: the game starts with the first player
ShouldStartAtOne(size, started) == size >= 1 /\ ~started

\* the condition of the auto-start in handleConnection
ShouldStart(size, started) == size >= 2 /\ ~started

(* ---- actions ---- *)
\* wss.on('connection'): handleConnection
Connect(pos, coinPos) ==
  /\ ~crashed
  /\ nextPlayerId <= MaxPlayers
  /\ Len(timers) < MaxTimers
  /\ LET id == nextPlayerId
         p == [id |-> id, x |-> pos[1], y |-> pos[2], score |-> 0, inputs |-> NoKeys]
         ps == players @@ (id :> p)
         start == ShouldStart(Cardinality(DOMAIN ps), gameStarted)
     IN /\ nextPlayerId' = id + 1
        /\ players' = ps
        /\ ws' = ws @@ (id :> "OPEN")
        /\ timers' = sendWithLatency(timers, id, InitMsg(p), coins, collected)
        /\ gameStarted' = (gameStarted \/ start)
        /\ coins' = IF start THEN spawnCoin(coins, coinPos) ELSE coins
        /\ everTwo' = (everTwo \/ Cardinality(DOMAIN ps) >= 2)
  /\ UNCHANGED <<now, ticked, spawnDue, ticks, crashed, wire, msgs, collected>>
  /\ UNCHANGED cvars

\* ws.on('close'): the socket is closed, the player leaves, the state is broadcast
Disconnect(c) ==
  /\ ~crashed
  /\ c \in Roster
  /\ ws[c] = "OPEN"
  /\ Len(timers) + Cardinality(Roster) - 1 <= MaxTimers
  /\ ws' = [ws EXCEPT ![c] = "CLOSED"]
  /\ players' = Without(players, c)
  /\ timers' = broadcastGameState(timers, Without(players, c), coins, collected)
  /\ UNCHANGED <<now, coins, nextPlayerId, gameStarted, ticked, spawnDue, ticks,
                 crashed, wire, msgs, collected, everTwo>>
  /\ UNCHANGED cvars

\* ws.on('message'): the handling is deferred by NETWORK_LATENCY
ClientSend(c, m) ==
  /\ ~crashed
  /\ c \in DOMAIN ws
  /\ ws[c] = "OPEN"
  /\ Len(timers) < MaxTimers
  /\ msgs < MaxMessages
  /\ msgs' = msgs + 1
  /\ timers' = receiveWithLatency(timers, c, m)
  /\ UNCHANGED <<now, players, coins, nextPlayerId, gameStarted, ws, ticked, spawnDue,
                 ticks, crashed, wire, collected, everTwo>>
  /\ UNCHANGED cvars

\* variant: readyState is not tested
SendAlways(state) == "sent"

\* the outcome of the callback of sendWithLatency
SendOutcome(state) == IF state = "OPEN" THEN "sent" ELSE "dropped"

\* the callback of sendWithLatency runs: ws.send if the socket is open
SendCallback ==
  /\ ~crashed
  /\ timers # <<>>
  /\ Head(timers).kind = "send"
  /\ now >= Head(timers).due
  /\ LET t == Head(timers)
         out == SendOutcome(ws[t.conn])
     IN wire' = IF out = "sent" THEN [conn |-> t.conn, msg |-> Stringify(t.data, coins)]
                ELSE wire
  /\ timers' = Tail(timers)
  /\ UNCHANGED <<now, players, coins, nextPlayerId, gameStarted, ws, ticked, spawnDue,
                 ticks, crashed, msgs, collected, everTwo>>

\* the callback of sendWithLatency, the receiving client left out of the picture
DeliverSend == SendCallback /\ UNCHANGED cvars

\* variant: the type of the message is not tested
handleAnyType(ps, c, m) ==
  IF m.parse = "error" THEN ps
  ELSE IF c \notin DOMAIN ps THEN ps
  ELSE IF m.parse = "null" THEN ps
  ELSE [ps EXCEPT ![c].inputs = m.inputs]

\* handleMessage(playerId, message): the roster after the call
handleMessage(ps, c, m) ==
  IF m.parse = "error" THEN ps                 \* JSON.parse throws, caught
  ELSE IF c \notin DOMAIN ps THEN ps           \* if (!player) return
  ELSE IF m.parse = "null" THEN ps             \* data.type of null throws, caught
  ELSE IF m.type = "input" THEN [ps EXCEPT ![c].inputs = m.inputs]
  ELSE ps

\* the callback of ws.on('message') runs handleMessage
DeliverInput ==
  /\ ~crashed
  /\ timers # <<>>
  /\ Head(timers).kind = "recv"
  /\ now >= Head(timers).due
  /\ LET t == Head(timers)
     IN players' = handleMessage(players, t.conn, t.data)
  /\ timers' = Tail(timers)
  /\ UNCHANGED <<now, coins, nextPlayerId, gameStarted, ws, ticked, spawnDue,
                 ticks, crashed, wire, msgs, collected, everTwo>>
  /\ UNCHANGED cvars

\* the tick interval of startGameLoop: update, then broadcastGameState
Tick ==
  /\ ~crashed
  /\ ~ticked
  /\ ticked' = TRUE
  /\ IF gameStarted
     THEN /\ ticks < MaxTicks
          /\ Len(timers) + Cardinality(Roster) <= MaxTimers
          /\ LET r == update(InOrder(Roster), players, coins, {})
             IN /\ players' = r.players
                /\ coins' = r.coins
                /\ collected' = collected \cup r.got
                /\ crashed' = r.threw
                /\ timers' = IF r.threw THEN timers
                             ELSE broadcastGameState(timers, r.players, r.coins,
                                                     collected \cup r.got)
          /\ ticks' = ticks + 1
     ELSE UNCHANGED <<players, coins, collected, crashed, timers, ticks>>
  /\ UNCHANGED <<now, nextPlayerId, gameStarted, ws, spawnDue, wire, msgs, everTwo>>
  /\ UNCHANGED cvars

\* variant: the cap is tested off by one
MaySpawnAtCap(started, n) == started /\ n <= MAX_COINS

\* the condition of the coin-spawn interval
MaySpawn(started, n) == started /\ n < MAX_COINS

\* the coin-spawn interval of startGameLoop
SpawnTrigger(coinPos) ==
  /\ ~crashed
  /\ now >= spawnDue
  /\ spawnDue' = now + COIN_SPAWN_INTERVAL
  /\ coins' = IF MaySpawn(gameStarted, Len(coins)) THEN spawnCoin(coins, coinPos) ELSE coins
  /\ UNCHANGED <<now, players, nextPlayerId, gameStarted, ws, timers, ticked, ticks,
                 crashed, wire, msgs, collected, everTwo>>
  /\ UNCHANGED cvars

\* the instants at which the clock is observed: construction, one tick later,
\* one latency later, and the first multiples of the spawn interval.  Two
\* instants are at least TickInterval apart, so the tick interval, which ran
\* last at an earlier instant or at construction, is due at every instant but
\* the first.
ClockTimes ==
  {0, TickInterval, NETWORK_LATENCY} \cup { k * COIN_SPAWN_INTERVAL : k \in 1 .. MaxPeriods }

\* the clock observed only when the spawn interval is due
SpawnTimes == { k * COIN_SPAWN_INTERVAL : k \in 1 .. SpawnRounds }

\* time passes
Advance(t) ==
  /\ ~crashed
  /\ t > now
  /\ now' = t
  /\ ticked' = FALSE
  /\ UNCHANGED <<players, coins, nextPlayerId, gameStarted, ws, timers, spawnDue,
                 ticks, crashed, wire, msgs, collected, everTwo>>
  /\ UNCHANGED cvars

Next ==
  \/ \E pos \in PlayerSpawns, coinPos \in CoinSpawns : Connect(pos, coinPos)
  \/ \E c \in Ids : Disconnect(c)
  \/ \E c \in Ids, m \in ClientMessages : ClientSend(c, m)
  \/ DeliverSend
  \/ DeliverInput
  \/ Tick
  \/ \E coinPos \in CoinSpawns : SpawnTrigger(coinPos)
  \/ \E t \in ClockTimes : Advance(t)

Spec == Init /\ [][Next]_vars

\* the server over several spawn periods, with clients that stay silent
NextSpawn ==
  \/ \E pos \in PlayerSpawns : Connect(pos, <<0, 0>>)
  \/ \E c \in Ids : Disconnect(c)
  \/ DeliverSend
  \/ Tick
  \/ SpawnTrigger(<<0, 0>>)
  \/ \E t \in SpawnTimes : Advance(t)

SpecSpawn == Init /\ [][NextSpawn]_vars

(***************************************************************************)
(* The client (class GameClient): snapshot buffer and interpolation        *)
(***************************************************************************)
\* the entry pushed onto this.serverStates for a state message
Snapshot(m) == [timestamp |-> m.timestamp, players |-> m.players, coins |-> m.coins]

\* the filter of handleMessage: entries newer than the cutoff stay
Prune(buf, t) == SelectSeq(buf, LAMBDA s : s.timestamp > t - PRUNE_WINDOW)

\* GameClient.handleMessage at time t, as the pair of fields it may assign
clientHandleMessage(id, buf, m, t) ==
  IF m.type = "init" THEN [myPlayerId |-> m.players[1].id, serverStates |-> buf]
  ELSE IF m.type = "state"
       THEN [myPlayerId |-> id, serverStates |-> Prune(Append(buf, Snapshot(m)), t)]
       ELSE [myPlayerId |-> id, serverStates |-> buf]

\* variant: only the earlier snapshot of the pair is tested
BracketsBelow(buf, rt, i) == buf[i].timestamp <= rt

\* the loop condition of interpolateState on the pair (i, i + 1)
Brackets(buf, rt, i) == buf[i].timestamp <= rt /\ buf[i + 1].timestamp >= rt

RECURSIVE FindPair(_, _, _)
\* the for loop with its break: index of the first bracketing pair from i on, or 0
FindPair(buf, rt, i) ==
  IF i > Len(buf) - 1 THEN 0
  ELSE IF Brackets(buf, rt, i) THEN i
       ELSE FindPair(buf, rt, i + 1)

RECURSIVE Find(_, _, _)
\* after.players.find(p => p.id === id): index of the first match from k on, or 0
Find(ps, id, k) ==
  IF k > Len(ps) THEN 0
  ELSE IF ps[k].id = id THEN k
       ELSE Find(ps, id, k + 1)

\* variant: the position of after is taken as it is
LerpToAfter(b, a, num, den) == a

\* b + (a - b) * t with t = num / den, at the resolution of the model
Lerp(b, a, num, den) == b + ((a - b) * num) \div den

\* the callback of before.players.map; num / den is t, and 0 / 0 is NaN, which
\* makes both coordinates NaN
interpolatePlayer(bp, after, num, den) ==
  LET k == Find(after.players, bp.id, 1)
  IN IF k = 0 THEN bp
     ELSE IF den = 0
          THEN [id |-> bp.id, x |-> 0, y |-> 0, score |-> after.players[k].score,
                nan |-> TRUE]
          ELSE [id |-> bp.id,
                x |-> Lerp(bp.x, after.players[k].x, num, den),
                y |-> Lerp(bp.y, after.players[k].y, num, den),
                score |-> after.players[k].score, nan |-> FALSE]

\* { players: [], coins: [] }
EmptyRender == [players |-> <<>>, coins |-> <<>>]

\* variant: the fallback is the first snapshot of the buffer
interpolateOldest(buf, t) ==
  LET rt == t - INTERPOLATION_DELAY
      i == IF Len(buf) < 2 THEN 0 ELSE FindPair(buf, rt, 1)
  IN IF Len(buf) < 2 THEN (IF buf = <<>> THEN EmptyRender ELSE buf[1])
     ELSE IF i = 0 THEN buf[1]
     ELSE [players |-> [k \in 1 .. Len(buf[i].players) |->
                          interpolatePlayer(buf[i].players[k], buf[i + 1],
                                            rt - buf[i].timestamp,
                                            buf[i + 1].timestamp - buf[i].timestamp)],
           coins |-> buf[i + 1].coins]

\* GameClient.interpolateState on the buffer buf at time t
interpolateState(buf, t) ==
  LET rt == t - INTERPOLATION_DELAY
      i == IF Len(buf) < 2 THEN 0 ELSE FindPair(buf, rt, 1)
  IN IF Len(buf) < 2 THEN (IF buf = <<>> THEN EmptyRender ELSE buf[1])
     ELSE IF i = 0 THEN buf[Len(buf)]
     ELSE [players |-> [k \in 1 .. Len(buf[i].players) |->
                          interpolatePlayer(buf[i].players[k], buf[i + 1],
                                            rt - buf[i].timestamp,
                                            buf[i + 1].timestamp - buf[i].timestamp)],
           coins |-> buf[i + 1].coins]

\* ws.on('message') of the client: JSON.parse, then handleMessage
Receive(m) ==
  /\ Len(serverStates) < MaxBuffer
  /\ LET r == clientHandleMessage(myPlayerId, serverStates, m, now)
     IN /\ myPlayerId' = r.myPlayerId
        /\ serverStates' = r.serverStates
  /\ UNCHANGED <<now, players, coins, nextPlayerId, gameStarted, ws, timers, ticked,
                 spawnDue, ticks, crashed, wire, msgs, collected, everTwo, rendered>>

\* the render interval of startRenderLoop calls interpolateState
Render ==
  /\ rendered' = interpolateState(serverStates, now)
  /\ UNCHANGED <<now, players, coins, nextPlayerId, gameStarted, ws, timers, ticked,
                 spawnDue, ticks, crashed, wire, msgs, collected, everTwo,
                 myPlayerId, serverStates>>

\* a serialized player as it appears in a state message
P(id, x, y, score) == [id |-> id, x |-> x * Scale, y |-> y * Scale, score |-> score]

\* the timestamps carried by the messages offered to the client alone
StampTimes == {0, INTERPOLATION_DELAY}

\* the player and coin lists carried by those messages: player 1 moving right
\* and scoring, player 2 present, absent, or listed first
Payloads ==
  { [players |-> <<P(1, 0, 0, 0), P(2, 40, 20, 0)>>, coins |-> <<>>],
    [players |-> <<P(1, 10, 0, 1)>>, coins |-> <<[id |-> 0, x |-> 0, y |-> 0]>>],
    [players |-> <<P(2, 20, 40, 0), P(1, 10, 0, 1)>>, coins |-> <<>>] }

\* the messages offered to the client alone, in the form Stringify gives them
ServerMessages ==
  { [type |-> "state", timestamp |-> ts, players |-> pl.players, coins |-> pl.coins] :
      ts \in StampTimes, pl \in Payloads }
  \cup { Stringify(InitMsg([id |-> 1, x |-> 0, y |-> 0, score |-> 0, inputs |-> NoKeys]), <<>>) }

\* the instants at which the client alone observes the clock: construction, a
\* render time halfway between the two stamps, a render time on the later
\* stamp, and one prune window after the earlier stamp
ClientTimes ==
  {0, INTERPOLATION_DELAY + INTERPOLATION_DELAY \div 2, 2 * INTERPOLATION_DELAY, PRUNE_WINDOW}

\* the client alone, fed messages in any order
NextClient ==
  \/ \E m \in ServerMessages : Receive(m)
  \/ Render
  \/ \E t \in ClientTimes : Advance(t)

SpecClient == Init /\ [][NextClient]_vars

\* the connection of the client process under observation: the first to connect
Observed == 1

\* the callback of sendWithLatency together with ws.on('message') of the client
\* at the other end of the observed connection; the loopback transit takes no
\* time on the millisecond clock the two processes share
DeliverToClient ==
  /\ SendCallback
  /\ LET t == Head(timers)
         r == clientHandleMessage(myPlayerId, serverStates, Stringify(t.data, coins), now)
     IN IF t.conn = Observed /\ SendOutcome(ws[t.conn]) = "sent"
        THEN /\ myPlayerId' = r.myPlayerId
             /\ serverStates' = r.serverStates
        ELSE UNCHANGED <<myPlayerId, serverStates>>
  /\ UNCHANGED rendered

\* the instants at which the running system is observed: construction, one
\* tick later, and one and two latencies after each of them
SysTimes ==
  {0, TickInterval, NETWORK_LATENCY, NETWORK_LATENCY + TickInterval, 2 * NETWORK_LATENCY}

\* the server with the observed client at the end of its connection, the
\* clients sending nothing
NextSys ==
  \/ \E pos \in PlayerSpawns : Connect(pos, <<0, 0>>)
  \/ \E c \in Ids : Disconnect(c)
  \/ DeliverToClient
  \/ Tick
  \/ Render
  \/ \E t \in SysTimes : Advance(t)

SpecSys == Init /\ [][NextSys]_vars

(***************************************************************************)
(* Steps                                                                   *)
(***************************************************************************)
\* a setTimeout callback runs: the head of the queue leaves it
DeliverStep == timers # <<>> /\ timers' = Tail(timers)

\* the tick interval runs while the game is started
TickStep == gameStarted /\ ~ticked /\ ticked'

\* the coin-spawn interval runs
SpawnStep == spawnDue' # spawnDue

IsStateTimer(t) == t.kind = "send" /\ t.data.type = "state"

(***************************************************************************)
(* C1: in every reachable state, hence after every tick, every player of   *)
(* the roster has x and y within [0, MAP_SIZE - PLAYER_SIZE].              *)
(***************************************************************************)
C1_InBounds ==
  \A i \in Roster :
    /\ 0 <= players[i].x /\ players[i].x <= (MAP_SIZE - PLAYER_SIZE) * Scale
    /\ 0 <= players[i].y /\ players[i].y <= (MAP_SIZE - PLAYER_SIZE) * Scale

\* a tick has pushed a player against the far edge, and one against the near edge
C1_Witness ==
  /\ ticks > 0
  /\ \E i \in Roster : players[i].x = (MAP_SIZE - PLAYER_SIZE) * Scale
                       /\ players[i].inputs.right = "true"
  /\ \E i \in Roster : players[i].y = 0 /\ players[i].inputs.up = "str"

(***************************************************************************)
(* C2: in every step a player's score grows by the number of coins the     *)
(* step removes of which that player is the first, in roster order, to     *)
(* overlap; so it never decreases, a removed coin gives one point to one   *)
(* player, and a score changes only in a tick.                             *)
(***************************************************************************)
Removed(k) == \A j \in 1 .. Len(coins') : coins'[j] # coins[k]

OverlapIds(k) == { i \in DOMAIN players' : Overlaps(players'[i], coins[k]) }

Collector(k) ==
  IF OverlapIds(k) = {} THEN 0
  ELSE CHOOSE i \in OverlapIds(k) : \A j \in OverlapIds(k) : i <= j

C2_ScoreRule ==
  [][ /\ \A i \in Roster \cap DOMAIN players' :
           /\ players'[i].score =
                players[i].score
                + Cardinality({ k \in 1 .. Len(coins) : Removed(k) /\ Collector(k) = i })
           /\ players'[i].score # players[i].score => TickStep
      /\ \A k \in 1 .. Len(coins) : Removed(k) => Collector(k) \in Roster
    ]_vars

\* two players stand on the same spot, a coin was collected there, and only
\* the first of them has the point
C2_Witness ==
  /\ Roster = {1, 2}
  /\ players[1].x = players[2].x /\ players[1].y = players[2].y
  /\ players[1].score = 1 /\ players[2].score = 0
  /\ collected # {} /\ coins = <<>>

(***************************************************************************)
(* C3: the engine is active exactly when the roster has held 2 players at  *)
(* some moment.  Before that no step moves a player, spawns a coin or      *)
(* changes a score; once active it stays active, whatever the roster: each *)
(* run of the tick interval is a tick and each run of the spawn interval   *)
(* below the cap adds a coin.                                              *)
(***************************************************************************)
C3_Threshold ==
  [][ /\ gameStarted' = everTwo'
      /\ ~everTwo' =>
           /\ coins' = <<>>
           /\ \A i \in Roster \cap DOMAIN players' :
                /\ players'[i].x = players[i].x
                /\ players'[i].y = players[i].y
                /\ players'[i].score = 0
      /\ ~everTwo /\ everTwo' => Len(coins') = 1
      /\ gameStarted => gameStarted'
      /\ gameStarted /\ ~ticked /\ ticked' => ticks' = ticks + 1
      /\ gameStarted /\ SpawnStep /\ Len(coins) < MAX_COINS => Len(coins') = Len(coins) + 1
    ]_vars

\* the game is started, one player is left, and two snapshots of that
\* one-player roster are pending: the later one was built by a tick
C3_Witness ==
  /\ gameStarted
  /\ Cardinality(Roster) = 1
  /\ \E i, j \in 1 .. Len(timers) :
       /\ IsStateTimer(timers[i]) /\ IsStateTimer(timers[j])
       /\ Len(timers[i].data.players) = 1 /\ Len(timers[j].data.players) = 1
       /\ timers[i].at < timers[j].at

(***************************************************************************)
(* C4 (as claimed): a state message sent to a client carries the player    *)
(* records and the coin list the world held when the snapshot was built.   *)
(***************************************************************************)
C4_SnapshotAsBuilt ==
  [][ DeliverStep /\ IsStateTimer(Head(timers)) /\ ws[Head(timers).conn] = "OPEN" =>
        /\ wire'.msg.timestamp = Head(timers).at
        /\ wire'.msg.players = Head(timers).data.players
        /\ wire'.msg.coins = Head(timers).built
    ]_vars

(***************************************************************************)
(* C5: a delayed callback runs no earlier than NETWORK_LATENCY after it    *)
(* was scheduled, and when it runs no callback scheduled earlier on the    *)
(* same channel (same direction, same connection) is still pending.        *)
(***************************************************************************)
C5_LatencyOrder ==
  [][ DeliverStep =>
        /\ now >= Head(timers).at + NETWORK_LATENCY
        /\ \A k \in 1 .. Len(timers') :
             timers'[k].kind = Head(timers).kind /\ timers'[k].conn = Head(timers).conn
               => timers'[k].at >= Head(timers).at
    ]_vars

\* a message was sent to a client while a later message of the same channel waits
C5_Witness ==
  /\ wire.conn # 0
  /\ wire.msg.type = "init"
  /\ \E k \in 1 .. Len(timers) :
       /\ timers[k].kind = "send" /\ timers[k].conn = wire.conn
       /\ timers[k].at > 0 /\ timers[k].at < now

(***************************************************************************)
(* C6: no step leaves more than 5 live coins, the coin of the game start   *)
(* included, and a run of the spawn interval at 5 live coins changes       *)
(* nothing.                                                                *)
(***************************************************************************)
C6_CoinCap ==
  [][ /\ Len(coins') <= MAX_COINS
      /\ SpawnStep /\ Len(coins) = MAX_COINS =>
           UNCHANGED <<players, coins, nextPlayerId, gameStarted, ws, timers, wire>>
    ]_vars

\* 5 coins are live and the spawn interval has just run without spawning
C6_Witness ==
  /\ Len(coins) = MAX_COINS
  /\ spawnDue = now + COIN_SPAWN_INTERVAL
  /\ \A k \in 1 .. Len(coins) : coins[k].id < now

(***************************************************************************)
(* C7 (as claimed): a snapshot never lists a coin whose id was removed by  *)
(* a collision before the snapshot was built.                              *)
(***************************************************************************)
C7_NoReappear ==
  \A k \in 1 .. Len(timers) :
    IsStateTimer(timers[k]) =>
      \A j \in 1 .. Len(timers[k].built) : timers[k].built[j].id \notin timers[k].gone

(***************************************************************************)
(* C8 (as claimed): whatever the clients send, every stored intent is a    *)
(* record of four booleans and no tick faults.                             *)
(***************************************************************************)
C8_IntentTotal ==
  /\ ~crashed
  /\ \A i \in Roster : IsBoolRecord(players[i].inputs)

(***************************************************************************)
(* C9: handling a client message changes nothing but, for a parsed message *)
(* of type input from a player of the roster, that player's intent, which  *)
(* becomes the message's inputs; no connection is closed.                  *)
(***************************************************************************)
C9_HandleFrame ==
  [][ DeliverStep /\ Head(timers).kind = "recv" =>
        LET t == Head(timers)
            applies == t.data.parse = "ok" /\ t.data.type = "input" /\ t.conn \in Roster
        IN /\ UNCHANGED <<coins, nextPlayerId, gameStarted, ws, wire, crashed>>
           /\ DOMAIN players' = Roster
           /\ \A i \in Roster : i # t.conn \/ ~applies => players'[i] = players[i]
           /\ applies => players'[t.conn] = [players[t.conn] EXCEPT !.inputs = t.data.inputs]
    ]_vars

\* both messages of the budget were handled and a player's intent is the
\* replacement, not the default
C9_Witness ==
  /\ msgs = 2
  /\ \A k \in 1 .. Len(timers) : timers[k].kind # "recv"
  /\ \E i \in Roster : players[i].inputs = Intent("str", "false", "false", "false")

(***************************************************************************)
(* C10: when the callback of a delayed send runs on a closed connection    *)
(* nothing is sent, nothing is rescheduled and nothing faults: the other   *)
(* pending callbacks stay as they are; on an open connection the message   *)
(* is sent on that connection.                                             *)
(***************************************************************************)
C10_ClosedDrop ==
  [][ DeliverStep /\ Head(timers).kind = "send" =>
        IF ws[Head(timers).conn] = "OPEN"
        THEN wire'.conn = Head(timers).conn /\ ~crashed'
        ELSE UNCHANGED <<wire, crashed, players, coins, ws>>
    ]_vars

\* a two-player snapshot reached player 1, player 2's socket is closed and
\* player 2's copy is no longer pending: it was dropped
C10_Witness ==
  /\ 2 \in DOMAIN ws /\ ws[2] = "CLOSED"
  /\ wire.conn = 1
  /\ wire.msg.type = "state"
  /\ Len(wire.msg.players) = 2
  /\ \A k \in 1 .. Len(timers) : timers[k].conn # 2

(***************************************************************************)
(* C11: in the step in which a connection closes, its player leaves the    *)
(* roster and no delayed send or delayed input application bound to that   *)
(* connection remains scheduled.                                           *)
(***************************************************************************)
\* connection c closes in this step
CloseStep(c) == c \in DOMAIN ws /\ ws[c] = "OPEN" /\ ws'[c] = "CLOSED"

\* the timers still scheduled in queue q that are bound to connection c
PendingFor(q, c) == { k \in 1 .. Len(q) : q[k].conn = c }

C11_CloseDeregisters ==
  [][ \A c \in Ids : CloseStep(c) =>
        /\ c \notin DOMAIN players'
        /\ PendingFor(timers', c) = {}
    ]_vars

(***************************************************************************)
(* C12: after any sequence of ingestions the client's buffer is sorted by  *)
(* timestamp and holds at most one snapshot per timestamp.                 *)
(***************************************************************************)
C12_SortedUnique ==
  \A i, j \in 1 .. Len(serverStates) :
    i < j => serverStates[i].timestamp < serverStates[j].timestamp

(***************************************************************************)
(* C13: an ingestion at time now leaves in the buffer no snapshot older    *)
(* than now - 1000 and keeps, in their order, all the buffered snapshots   *)
(* with timestamp >= now - 1000, the one equal to now - 1000 included.     *)
(***************************************************************************)
\* a state message is ingested in this step
IngestStep == serverStates' # serverStates

\* the entries of buf the window keeps at time t, its edge included
InWindow(buf, t) == SelectSeq(buf, LAMBDA s : s.timestamp >= t - PRUNE_WINDOW)

C13_PruneWindow ==
  [][ IngestStep =>
        /\ \A k \in 1 .. Len(serverStates') :
             serverStates'[k].timestamp >= now - PRUNE_WINDOW
        /\ Len(serverStates') >= Len(InWindow(serverStates, now))
        /\ SubSeq(serverStates', 1, Len(InWindow(serverStates, now)))
             = InWindow(serverStates, now)
    ]_vars

(***************************************************************************)
(* Steps and cases of the client                                           *)
(***************************************************************************)
\* interpolateState is called in this step and returns something new
RenderStep == rendered' # rendered

\* the render time of a call made now
RenderTime == now - INTERPOLATION_DELAY

\* the adjacent pairs of the buffer whose timestamps enclose the render time
Pairs ==
  { i \in 1 .. Len(serverStates) - 1 :
      /\ serverStates[i].timestamp <= RenderTime
      /\ RenderTime <= serverStates[i + 1].timestamp }

\* the first of them
FirstPair == CHOOSE i \in Pairs : \A j \in Pairs : i <= j

\* the places of the player id in the list ps
Places(ps, id) == { j \in 1 .. Len(ps) : ps[j].id = id }

(***************************************************************************)
(* C14: a call of interpolateState that finds a bracketing pair returns    *)
(* the players of before in their order; a player found in after has       *)
(* after's score and the position before + (after - before) * t, here to   *)
(* the resolution of the model and for t defined (the two timestamps       *)
(* differ); a player not found in after is its before record; the coins    *)
(* are those of after.                                                     *)
(***************************************************************************)
C14_Interpolates ==
  [][ RenderStep /\ Pairs # {} =>
        LET b == serverStates[FirstPair]
            a == serverStates[FirstPair + 1]
            num == RenderTime - b.timestamp
            den == a.timestamp - b.timestamp
            r == rendered'
        IN /\ Len(r.players) = Len(b.players)
           /\ r.coins = a.coins
           /\ \A k \in 1 .. Len(b.players) :
                LET bp == b.players[k]
                    rp == r.players[k]
                    js == Places(a.players, bp.id)
                IN IF js = {} THEN rp = bp
                   ELSE LET ap == a.players[CHOOSE j \in js : \A h \in js : j <= h]
                        IN /\ rp.id = bp.id
                           /\ rp.score = ap.score
                           /\ den > 0 =>
                                /\ ~rp.nan
                                /\ den * rp.x <= den * bp.x + (ap.x - bp.x) * num
                                /\ den * bp.x + (ap.x - bp.x) * num < den * (rp.x + 1)
                                /\ den * rp.y <= den * bp.y + (ap.y - bp.y) * num
                                /\ den * bp.y + (ap.y - bp.y) * num < den * (rp.y + 1)
    ]_vars

\* the example: x = 0 at time 0 and x = 10 at time 100 rendered at time 50 is
\* x = 5 with the later score, the player absent from after is left as it was,
\* and the coin of after is shown
C14_Witness ==
  /\ now - INTERPOLATION_DELAY = 50
  /\ Len(serverStates) = 2
  /\ serverStates[1] = [timestamp |-> 0, players |-> <<P(1, 0, 0, 0), P(2, 40, 20, 0)>>,
                        coins |-> <<>>]
  /\ serverStates[2] = [timestamp |-> 100, players |-> <<P(1, 10, 0, 1)>>,
                        coins |-> <<[id |-> 0, x |-> 0, y |-> 0]>>]
  /\ rendered = [players |-> <<[id |-> 1, x |-> 5 * Scale, y |-> 0, score |-> 1,
                                nan |-> FALSE],
                               P(2, 40, 20, 0)>>,
                 coins |-> <<[id |-> 0, x |-> 0, y |-> 0]>>]

(***************************************************************************)
(* C15: a call of interpolateState that finds no bracketing pair returns   *)
(* the empty render state from an empty buffer, the only snapshot from a   *)
(* buffer of one whatever the render time, and the last snapshot from a    *)
(* buffer of two or more.                                                  *)
(***************************************************************************)
C15_Fallbacks ==
  [][ RenderStep =>
        /\ Len(serverStates) = 0 => rendered' = [players |-> <<>>, coins |-> <<>>]
        /\ Len(serverStates) = 1 => rendered' = serverStates[1]
        /\ Len(serverStates) >= 2 /\ Pairs = {} =>
             rendered' = serverStates[Len(serverStates)]
    ]_vars

\* the render time is past a buffer of three and the last snapshot is shown
C15_Witness ==
  /\ Len(serverStates) = 3
  /\ \A k \in 1 .. 3 : serverStates[k].timestamp < RenderTime
  /\ rendered = serverStates[3]
  /\ rendered # serverStates[1]
  /\ rendered # serverStates[2]

(***************************************************************************)
(* C16: a call of interpolateState with a render time earlier than every   *)
(* buffered timestamp returns a snapshot of the smallest timestamp.        *)
(***************************************************************************)
\* the render time of a call made now precedes the whole non-empty buffer
BeforeRange ==
  /\ Len(serverStates) >= 1
  /\ \A k \in 1 .. Len(serverStates) : RenderTime < serverStates[k].timestamp

C16_ReturnsOldest ==
  [][ RenderStep /\ BeforeRange =>
        \E k \in 1 .. Len(serverStates) :
          /\ rendered' = serverStates[k]
          /\ \A h \in 1 .. Len(serverStates) :
               serverStates[k].timestamp <= serverStates[h].timestamp
    ]_vars

\* C16 as the code has it: such a call returns the last snapshot of the
\* buffer, the most recent one received
C16_ReturnsLast ==
  [][ RenderStep /\ BeforeRange => rendered' = serverStates[Len(serverStates)] ]_vars

\* the render time precedes a buffer of two and the later snapshot is shown
C16_Witness ==
  /\ Len(serverStates) = 2
  /\ BeforeRange
  /\ serverStates[1].timestamp < serverStates[2].timestamp
  /\ rendered = serverStates[2]

(***************************************************************************)
(* C17: no two coins on the map, hence no two coins listed by a snapshot,  *)
(* have the same id.                                                       *)
(***************************************************************************)
C17_UniqueCoinIds ==
  \A i, j \in 1 .. Len(coins) : i # j => coins[i].id # coins[j].id

(***************************************************************************)
(* C18: in the running system, a call of interpolateState on a buffer of   *)
(* two or more snapshots has its render time at or before the newest       *)
(* buffered timestamp, finds a bracketing pair and returns an interpolated *)
(* state, not a buffered snapshot.                                         *)
(***************************************************************************)
C18_RenderInsideBuffer ==
  [][ RenderStep /\ Len(serverStates) >= 2 =>
        /\ \E k \in 1 .. Len(serverStates) : RenderTime <= serverStates[k].timestamp
        /\ Pairs # {}
        /\ \A k \in 1 .. Len(serverStates) : rendered' # serverStates[k]
    ]_vars

(***************************************************************************)
(* C19: when a call of interpolateState selects a pair from a buffer whose *)
(* snapshots are in the order of the server's broadcasts (timestamps never *)
(* decreasing), the later timestamp is strictly greater than the earlier   *)
(* one, t lies in [0, 1] and the rendered positions are numbers.           *)
(***************************************************************************)
\* the buffer is in the order in which the server stamps its broadcasts
InBroadcastOrder ==
  \A i, j \in 1 .. Len(serverStates) :
    i < j => serverStates[i].timestamp <= serverStates[j].timestamp

IsInitTimer(t) == t.kind = "send" /\ t.data.type = "init"

\* the last message put on the wire is a state message
StateOnWire == wire.conn # 0 /\ wire.msg.type = "state"

C20_InitBeforeState ==
  /\ ~gameStarted =>
       /\ \A k \in 1 .. Len(timers) : ~IsStateTimer(timers[k])
       /\ ~StateOnWire
  /\ \A k, j \in 1 .. Len(timers) :
       /\ IsStateTimer(timers[k])
       /\ IsInitTimer(timers[j])
       /\ timers[j].conn = timers[k].conn
       => j < k
  /\ StateOnWire =>
       \A j \in 1 .. Len(timers) :
         IsInitTimer(timers[j]) => timers[j].conn # wire.conn

\* a broadcast is scheduled while the init message of a connection is still
\* pending: the state message for that connection waits behind it
C20_Witness ==
  /\ gameStarted
  /\ \E j, k \in 1 .. Len(timers) :
       /\ IsInitTimer(timers[j])
       /\ IsStateTimer(timers[k])
       /\ timers[j].conn = timers[k].conn
       /\ j < k
====
